---- MODULE Spec2Model ----
(***************************************************************************)
(* cupid (src/lib.rs): a snapshot of the processor's CPUID leaves.         *)
(*                                                                         *)
(* A u32 is modelled as the set of its bit positions that hold 1           *)
(* (0 = least significant), so that all 32 bits are kept: shifts drop the  *)
(* bits that leave the word, & is intersection and | is union.  A byte, a  *)
(* bit index and a decoded field of at most 16 bits are naturals.  A &str  *)
(* is the sequence of its bytes.  Option<T> is <<>> (None) or <<x>>        *)
(* (Some(x)).                                                              *)
(*                                                                         *)
(* The processor is a scripted double of the cpuid instruction: a record   *)
(* that fixes what each leaf returns.                                      *)
(***************************************************************************)
EXTENDS Integers, Sequences, FiniteSets, TLC

VARIABLES
    cpu,        \* the processor the snapshot is taken on (scripted registers)
    pc,         \* position in Master::new, or in the pure function under call
    max_value,  \* the local max_value of Master::new (lib.rs:685, 699)
    master,     \* the decoder slots of the Master under construction / built
    queries,    \* the input registers of each cpuid executed so far, in order
    arg,        \* the input of the function under call (pure-function specs)
    ret         \* what the last call returned

vars == <<cpu, pc, max_value, master, queries, arg, ret>>

\* ---------------------------------------------------------------- bounds

\* scripted register tuples per leaf a processor is drawn from
NumScripts == 3
\* pseudo-random 32-bit words the bit extractor is tried on, besides the corner words
NumWords == 3
\* 16-byte chunks each brand-string leaf is drawn from when deref is tried alone
NumChunks == 7

\* ------------------------------------------------------------------- u32

None == <<>>
Some(x) == <<x>>

NatBit(n, i) == (n \div 2^i) % 2 = 1

\* the 32-bit word with high half hi and low half lo (both 16-bit naturals)
W(hi, lo) ==
    {i \in 0..15 : NatBit(lo, i)} \cup {i + 16 : i \in {j \in 0..15 : NatBit(hi, j)}}

\* u32 >> n, for n < 32
Shr(w, n) == {i - n : i \in {j \in w : j >= n}}

\* u32 << n, for n < 32: the bits shifted out of the word are dropped
Shl(w, n) == {i + n : i \in {j \in w : j + n <= 31}}

BitAnd(a, b) == a \cap b

BitOr(a, b) == a \cup b

MaxOf(S) == CHOOSE m \in S : \A k \in S : k <= m

\* a >= b on u32 (unsigned): equal, or the highest bit they differ in is set in a
U32Ge(a, b) ==
    LET d == (a \ b) \cup (b \ a)
    IN  d = {} \/ MaxOf(d) \in a

RECURSIVE ToNatBelow(_, _)
\* the value of the low n bits of a word as a natural, for n <= 31
ToNatBelow(w, n) ==
    IF n = 0 THEN 0
    ELSE ToNatBelow(w, n - 1) + (IF (n - 1) \in w THEN 2^(n - 1) ELSE 0)

\* the value of a word below 2^31 as a natural
ToNat(w) == ToNatBelow(w, 31)

FromNat(n) == {i \in 0..30 : NatBit(n, i)}

\* u32 + u32, for operands whose sum stays below 2^31
U32Add(a, b) == FromNat(ToNat(a) + ToNat(b))

\* ----------------------------------------------------------- RequestType

RequestType ==
    [ BasicInformation                  |-> W(\h0000, \h0000),
      VersionInformation                |-> W(\h0000, \h0001),
      ThermalPowerManagementInformation |-> W(\h0000, \h0006),
      StructuredExtendedInformation     |-> W(\h0000, \h0007),
      ExtendedFunctionInformation       |-> W(\h8000, \h0000),
      ExtendedProcessorSignature        |-> W(\h8000, \h0001),
      BrandString1                      |-> W(\h8000, \h0002),
      BrandString2                      |-> W(\h8000, \h0003),
      BrandString3                      |-> W(\h8000, \h0004),
      CacheLine                         |-> W(\h8000, \h0006),
      TimeStampCounter                  |-> W(\h8000, \h0007),
      PhysicalAddressSize               |-> W(\h8000, \h0008) ]

\* ------------------------------------------- the scripted cpuid registers
\* Each leaf's scripts are <<eax, ebx, ecx, edx>> tuples; a processor picks one
\* script index for the basic range, one for the extended range, and one 16-byte
\* chunk (BrandChunks) for each of the three brand-string leaves.

VersionInformation_scripts ==
    << <<W(\h0003, \h06A9), W(\h0010, \h0800), W(\h7FBA, \hE3FF), W(\hBFEB, \hFBFF)>>,
       <<W(\h0000, \h06B1), W(\h0000, \h0003), W(\h0000, \h0000), W(\h0383, \hF9FF)>>,
       <<W(\h0000, \h0F13), W(\h0001, \h080E), W(\hAAAA, \hAAAA), W(\h5555, \h5555)>>,
       <<W(\h0020, \h0F31), W(\h0002, \h080B), W(\h5555, \h5555), W(\hAAAA, \hAAAA)>> >>

ThermalPowerManagementInformation_scripts ==
    << <<W(\h0000, \h0077), W(\h0000, \h0002), W(\h0000, \h0009), W(\h0000, \h0000)>>,
       <<W(\hAAAA, \hAAAA), W(\h5555, \h5555), W(\h0000, \h0000), W(\hFFFF, \hFFFF)>>,
       <<W(\h5555, \h5555), W(\hFFFF, \hFFF0), W(\hFFFF, \hFFF6), W(\h0000, \h0001)>>,
       <<W(\h0000, \h27F7), W(\h0000, \h000A), W(\h0000, \h0001), W(\h8000, \h0000)>> >>

StructuredExtendedInformation_scripts ==
    << <<W(\h0000, \h0000), W(\h029C, \h67AF), W(\h0000, \h0000), W(\h9C00, \h0000)>>,
       <<W(\hFFFF, \hFFFF), W(\h5555, \h5555), W(\h0000, \h0001), W(\h0000, \h0000)>>,
       <<W(\h0000, \h0001), W(\hAAAA, \hAAAA), W(\hFFFF, \hFFFE), W(\hFFFF, \hFFFF)>>,
       <<W(\h0000, \h0000), W(\h0000, \h0281), W(\h0000, \h0000), W(\h0000, \h0000)>> >>

ExtendedProcessorSignature_scripts ==
    << <<W(\h0003, \h06A9), W(\h0000, \h0000), W(\h0000, \h0121), W(\h2C10, \h0800)>>,
       <<W(\h0000, \h0000), W(\hFFFF, \hFFFF), W(\h0000, \h0001), W(\h2010, \h0800)>>,
       <<W(\hFFFF, \hFFFF), W(\h0000, \h0000), W(\h2C10, \h0800), W(\h0000, \h0121)>>,
       <<W(\h0000, \h0000), W(\h0000, \h0000), W(\h0000, \h0000), W(\h0000, \h0000)>> >>

CacheLine_scripts ==
    << <<W(\h0000, \h0000), W(\h0000, \h0000), W(\h0100, \h6040), W(\h0000, \h0000)>>,
       <<W(\hFFFF, \hFFFF), W(\hFFFF, \hFFFF), W(\h0200, \h3040), W(\hFFFF, \hFFFF)>>,
       <<W(\h0000, \h0000), W(\h0100, \h6040), W(\h0000, \hF040), W(\h0000, \h0000)>>,
       <<W(\h0000, \h0000), W(\h0000, \h0000), W(\h0000, \h0000), W(\h0000, \h0000)>> >>

TimeStampCounter_scripts ==
    << <<W(\h0000, \h0000), W(\h0000, \h0000), W(\h0000, \h0000), W(\h0000, \h0100)>>,
       <<W(\h0000, \h0100), W(\h0000, \h0100), W(\h0000, \h0100), W(\h0000, \h0000)>>,
       <<W(\h0000, \h0000), W(\h0000, \h0000), W(\h0000, \h0100), W(\hFFFF, \hFEFF)>>,
       <<W(\hFFFF, \hFFFF), W(\h0000, \h0000), W(\h0000, \h0000), W(\h0000, \h0100)>> >>

PhysicalAddressSize_scripts ==
    << <<W(\h0000, \h3024), W(\h0000, \h0000), W(\h0000, \h0000), W(\h0000, \h0000)>>,
       <<W(\h0000, \h3027), W(\hFFFF, \hFFFF), W(\hFFFF, \hFFFF), W(\hFFFF, \hFFFF)>>,
       <<W(\h0000, \h3928), W(\h0000, \h3024), W(\h0000, \h0000), W(\h0000, \h0000)>>,
       <<W(\h0000, \h0000), W(\h0000, \h0000), W(\h0000, \h0000), W(\h0000, \h3024)>> >>

BrandChunks ==
    << <<W(\h2020, \h2020), W(\h4920, \h2020), W(\h6C65, \h746E), W(\h2029, \h5228)>>,  \* 1: '       Intel(R) '
       <<W(\h6E6F, \h6558), W(\h2029, \h5228), W(\h2055, \h5043), W(\h322D, \h3545)>>,  \* 2: 'Xeon(R) CPU E5-2'
       <<W(\h2030, \h3736), W(\h2040, \h2030), W(\h3036, \h2E32), W(\h007A, \h4847)>>,  \* 3: '670 0 @ 2.60GHz\x00'
       <<W(\h0000, \h0000), W(\h0000, \h0000), W(\h0000, \h0000), W(\h0000, \h0000)>>,  \* 4: 16 x NUL
       <<W(\h6574, \h6E49), W(\h2952, \h286C), W(\h726F, \h4320), W(\h4D54, \h2865)>>,  \* 5: 'Intel(R) Core(TM'
       <<W(\h2009, \h2020), W(\h6574, \h6E49), W(\h2952, \h286C), W(\h2000, \h2020)>>,  \* 6: '  \t Intel(R)  \x00 '
       <<W(\h2020, \h2020), W(\h2020, \h2020), W(\h2020, \h2020), W(\h2020, \h2020)>>,  \* 7: '                '
       <<W(\h3769, \h2029), W(\h5550, \h4320), W(\h0000, \h0A0D), W(\h0000, \h0000)>>,  \* 8: ') i7 CPU\r\n\x00\x00\x00\x00\x00\x00'
       <<W(\h580C, \h0B20), W(\h286E, \h6F65), W(\h4520, \h2952), W(\h2009, \h0A35)>> >>  \* 9: ' \x0b\x0cXeon(R) E5\n\t '

\* the maximum basic leaf a processor may report in eax of leaf 0
MaxBasicValues ==
    { W(\h0000, \h0000), W(\h0000, \h0001), W(\h0000, \h0005), W(\h0000, \h0006),
      W(\h0000, \h0007), W(\h0000, \h000D), W(\hFFFF, \hFFFF) }

\* the maximum extended leaf a processor may report in eax of leaf 0x80000000
MaxExtendedValues ==
    { W(\h0000, \h0000), W(\h7FFF, \hFFFF), W(\h8000, \h0000), W(\h8000, \h0001),
      W(\h8000, \h0003), W(\h8000, \h0004), W(\h8000, \h0005), W(\h8000, \h0006),
      W(\h8000, \h0007), W(\h8000, \h0008), W(\hFFFF, \hFFFF) }

Script(scripts, k) == scripts[((k - 1) % Len(scripts)) + 1]

\* the chunks of the three brand-string leaves that go with each extended script
BrandTriples == << <<1, 2, 3>>, <<4, 4, 4>>, <<5, 2, 5>>, <<7, 6, 4>> >>

\* the processors a snapshot is taken on
Processors ==
    { [ max_basic |-> mb, max_extended |-> me, basic |-> b, extended |-> e,
        brand |-> Script(BrandTriples, e) ] :
      mb \in MaxBasicValues, me \in MaxExtendedValues,
      b \in 1..NumScripts, e \in 1..NumScripts }

\* the input operands of the cpuid instruction: "{eax}"(code as u32), "{ecx}"(0 as u32)
cpuid_inputs(code) == [eax |-> code, ecx |-> W(\h0000, \h0000)]

\* cpuid with eax = code and ecx = 0 on processor p: <<eax, ebx, ecx, edx>>
cpuid(p, code) ==
    CASE code = RequestType.BasicInformation ->
            <<p.max_basic, W(\h756E, \h6547), W(\h6C65, \h746E), W(\h4965, \h6E69)>>
      [] code = RequestType.VersionInformation ->
            Script(VersionInformation_scripts, p.basic)
      [] code = RequestType.ThermalPowerManagementInformation ->
            Script(ThermalPowerManagementInformation_scripts, p.basic)
      [] code = RequestType.StructuredExtendedInformation ->
            Script(StructuredExtendedInformation_scripts, p.basic)
      [] code = RequestType.ExtendedFunctionInformation ->
            <<p.max_extended, W(\h0000, \h0000), W(\h0000, \h0000), W(\h0000, \h0000)>>
      [] code = RequestType.ExtendedProcessorSignature ->
            Script(ExtendedProcessorSignature_scripts, p.extended)
      [] code = RequestType.BrandString1 -> Script(BrandChunks, p.brand[1])
      [] code = RequestType.BrandString2 -> Script(BrandChunks, p.brand[2])
      [] code = RequestType.BrandString3 -> Script(BrandChunks, p.brand[3])
      [] code = RequestType.CacheLine -> Script(CacheLine_scripts, p.extended)
      [] code = RequestType.TimeStampCounter -> Script(TimeStampCounter_scripts, p.extended)
      [] code = RequestType.PhysicalAddressSize ->
            Script(PhysicalAddressSize_scripts, p.extended)

\* ------------------------------------------------------ bits_of, as_bytes

RECURSIVE bits_of_silly(_)
\* silly after n turns of the loop: silly <<= 1; silly |= 1
bits_of_silly(n) ==
    IF n <= 0 THEN W(\h0000, \h0000)
    ELSE BitOr(Shl(bits_of_silly(n - 1), 1), W(\h0000, \h0001))

\* faulty variant of bits_of: the mask is (1 << (end_bit - start_bit + 1)) - 1, whose shift
\* amount wraps to 0 for the full width
bits_of_shift_mask(val, start_bit, end_bit) ==
    BitAnd(Shr(val, start_bit % 32),
           LET n == ((end_bit - start_bit) + 1) % 32
           IN  {i \in 0..31 : i < n})

\* bits_of(val, start_bit, end_bit) with wrapping arithmetic: the loop runs over
\* start_bit..end_bit+1 (u8), and a shift takes its amount modulo 32
bits_of(val, start_bit, end_bit) ==
    BitAnd(Shr(val, start_bit % 32), bits_of_silly(((end_bit + 1) % 2^8) - start_bit))

\* whether a build with overflow checks panics in bits_of: end_bit+1 leaves u8, or
\* val >> start_bit shifts by the width or more (silly <<= 1 always shifts by 1)
bits_of_overflows(val, start_bit, end_bit) ==
    end_bit + 1 >= 2^8 \/ start_bit >= 32

\* the four bytes of a u32 in memory order (little-endian: the crate is x86 only)
as_bytes(v) ==
    [k \in 1..4 |-> ToNat(BitAnd(Shr(v, 8 * (k - 1)), W(\h0000, \h00FF)))]

\* bit!(reg, idx, name): ((self.reg >> idx) & 1) != 0
bit(reg, idx) == BitAnd(Shr(reg, idx), W(\h0000, \h0001)) # W(\h0000, \h0000)

\* --------------------------------------------------- VersionInformation

\* the &'static str literals of VersionInformation::brand_string, as bytes
\* "Intel(R) Celeron(R)"
STR_Intel_Celeron ==
    <<73, 110, 116, 101, 108, 40, 82, 41, 32, 67, 101, 108, 101, 114, 111, 110, 40, 82, 41>>

\* "Intel(R) Pentium(R) III"
STR_Intel_Pentium_III ==
    <<73, 110, 116, 101, 108, 40, 82, 41, 32, 80, 101, 110, 116, 105, 117, 109, 40, 82, 41, 32, 73, 73, 73>>

\* "Intel(R) Pentium(R) III Xeon(R)"
STR_Intel_Pentium_III_Xeon ==
    <<73, 110, 116, 101, 108, 40, 82, 41, 32, 80, 101, 110, 116, 105, 117, 109, 40, 82, 41, 32, 73, 73, 73, 32, 88, 101, 111, 110, 40, 82, 41>>

\* "Mobile Intel(R) Pentium(R) III-M"
STR_Mobile_Intel_Pentium_III_M ==
    <<77, 111, 98, 105, 108, 101, 32, 73, 110, 116, 101, 108, 40, 82, 41, 32, 80, 101, 110, 116, 105, 117, 109, 40, 82, 41, 32, 73, 73, 73, 45, 77>>

\* "Mobile Intel(R) Celeron(R)"
STR_Mobile_Intel_Celeron ==
    <<77, 111, 98, 105, 108, 101, 32, 73, 110, 116, 101, 108, 40, 82, 41, 32, 67, 101, 108, 101, 114, 111, 110, 40, 82, 41>>

\* "Intel(R) Pentium(R) 4"
STR_Intel_Pentium_4 ==
    <<73, 110, 116, 101, 108, 40, 82, 41, 32, 80, 101, 110, 116, 105, 117, 109, 40, 82, 41, 32, 52>>

\* "Intel(R) Xeon(R) MP"
STR_Intel_Xeon_MP ==
    <<73, 110, 116, 101, 108, 40, 82, 41, 32, 88, 101, 111, 110, 40, 82, 41, 32, 77, 80>>

\* "Intel(R) Xeon(R)"
STR_Intel_Xeon ==
    <<73, 110, 116, 101, 108, 40, 82, 41, 32, 88, 101, 111, 110, 40, 82, 41>>

\* "Mobile Intel(R) Pentium(R) 4-M"
STR_Mobile_Intel_Pentium_4_M ==
    <<77, 111, 98, 105, 108, 101, 32, 73, 110, 116, 101, 108, 40, 82, 41, 32, 80, 101, 110, 116, 105, 117, 109, 40, 82, 41, 32, 52, 45, 77>>

\* "Mobile Genuine Intel(R)"
STR_Mobile_Genuine_Intel ==
    <<77, 111, 98, 105, 108, 101, 32, 71, 101, 110, 117, 105, 110, 101, 32, 73, 110, 116, 101, 108, 40, 82, 41>>

\* "Intel(R) Celeron(R) M"
STR_Intel_Celeron_M ==
    <<73, 110, 116, 101, 108, 40, 82, 41, 32, 67, 101, 108, 101, 114, 111, 110, 40, 82, 41, 32, 77>>

\* "Intel(R) Pentium(R) M"
STR_Intel_Pentium_M ==
    <<73, 110, 116, 101, 108, 40, 82, 41, 32, 80, 101, 110, 116, 105, 117, 109, 40, 82, 41, 32, 77>>

\* VersionInformation::new: the value built and the cpuid calls it made
VersionInformation_new(p) ==
    LET r == cpuid(p, RequestType.VersionInformation)
    IN  [ ret |-> [eax |-> r[1], ebx |-> r[2], ecx |-> r[3], edx |-> r[4]],
          calls |-> <<RequestType.VersionInformation>> ]

VersionInformation_family_id(self) ==
    LET family_id == bits_of(self.eax, 8, 11)
        extended_family_id == bits_of(self.eax, 20, 27)
    IN  IF family_id # W(\h0000, \h000F)
        THEN family_id
        ELSE U32Add(extended_family_id, family_id)

\* faulty variant of VersionInformation_model_id: decided on the base family, bits[8:11]
VersionInformation_model_id_on_base_family(self) ==
    LET family_id == bits_of(self.eax, 8, 11)
        model_id == bits_of(self.eax, 4, 7)
        extended_model_id == bits_of(self.eax, 16, 19)
    IN  IF family_id = W(\h0000, \h0006) \/ family_id = W(\h0000, \h000F)
        THEN U32Add(Shl(extended_model_id, 4), model_id)
        ELSE model_id

VersionInformation_model_id(self) ==
    LET family_id == VersionInformation_family_id(self)
        model_id == bits_of(self.eax, 4, 7)
        extended_model_id == bits_of(self.eax, 16, 19)
    IN  IF family_id = W(\h0000, \h0006) \/ family_id = W(\h0000, \h000F)
        THEN U32Add(Shl(extended_model_id, 4), model_id)
        ELSE model_id

VersionInformation_stepping(self) == bits_of(self.eax, 0, 3)

\* faulty variant of VersionInformation_processor_signature: the wrong register
VersionInformation_processor_signature_from_ebx(self) == self.ebx

VersionInformation_processor_signature(self) == self.eax

\* faulty variant of VersionInformation_brand_index: the whole of ebx, unmasked
VersionInformation_brand_index_whole_ebx(self) == self.ebx

\* let brand_index = bits_of(self.ebx, 0, 7);
VersionInformation_brand_index(self) == bits_of(self.ebx, 0, 7)

VersionInformation_brand_string(self) ==
    LET brand_index == ToNat(VersionInformation_brand_index(self))
        processor_signature == VersionInformation_processor_signature(self)
    IN  CASE brand_index = \h00 -> None
          [] brand_index = \h01 -> Some(STR_Intel_Celeron)
          [] brand_index = \h02 -> Some(STR_Intel_Pentium_III)
          [] brand_index = \h03 ->
                IF processor_signature = W(\h0000, \h06B1)
                THEN Some(STR_Intel_Celeron)
                ELSE Some(STR_Intel_Pentium_III_Xeon)
          [] brand_index = \h04 -> Some(STR_Intel_Pentium_III)
          [] brand_index = \h06 -> Some(STR_Mobile_Intel_Pentium_III_M)
          [] brand_index = \h07 -> Some(STR_Mobile_Intel_Celeron)
          [] brand_index = \h08 -> Some(STR_Intel_Pentium_4)
          [] brand_index = \h09 -> Some(STR_Intel_Pentium_4)
          [] brand_index = \h0A -> Some(STR_Intel_Celeron)
          [] brand_index = \h0B ->
                IF processor_signature = W(\h0000, \h0F13)
                THEN Some(STR_Intel_Xeon_MP)
                ELSE Some(STR_Intel_Xeon)
          [] brand_index = \h0C -> Some(STR_Intel_Xeon_MP)
          [] brand_index = \h0E ->
                IF processor_signature = W(\h0000, \h0F13)
                THEN Some(STR_Intel_Xeon)
                ELSE Some(STR_Mobile_Intel_Pentium_4_M)
          [] brand_index = \h0F -> Some(STR_Mobile_Intel_Celeron)
          [] brand_index = \h11 -> Some(STR_Mobile_Genuine_Intel)
          [] brand_index = \h12 -> Some(STR_Intel_Celeron_M)
          [] brand_index = \h13 -> Some(STR_Mobile_Intel_Celeron)
          [] brand_index = \h14 -> Some(STR_Intel_Celeron)
          [] brand_index = \h15 -> Some(STR_Mobile_Genuine_Intel)
          [] brand_index = \h16 -> Some(STR_Intel_Pentium_M)
          [] brand_index = \h17 -> Some(STR_Mobile_Intel_Celeron)
          [] OTHER -> None

\* ------------------------------------------------- the other decoders

ExtendedProcessorSignature_new(p) ==
    LET r == cpuid(p, RequestType.ExtendedProcessorSignature)
    IN  [ ret |-> [ecx |-> r[3], edx |-> r[4]],
          calls |-> <<RequestType.ExtendedProcessorSignature>> ]

BRAND_STRING_LENGTH == 3 * 4 * 4

\* append_bytes(a, &mut bytes[offset..]): the 16 register bytes of leaf a, zipped
\* onto the slice that starts at offset
append_bytes(p, a, bytes, offset) ==
    LET r == cpuid(p, a)
        result_bytes == as_bytes(r[1]) \o as_bytes(r[2]) \o as_bytes(r[3]) \o as_bytes(r[4])
        n == IF Len(bytes) - offset < Len(result_bytes)
             THEN Len(bytes) - offset ELSE Len(result_bytes)
    IN  [i \in 1..Len(bytes) |->
            IF offset < i /\ i <= offset + n THEN result_bytes[i - offset] ELSE bytes[i]]

BrandString_new(p) ==
    LET b0 == [i \in 1..BRAND_STRING_LENGTH |-> 0]
        b1 == append_bytes(p, RequestType.BrandString1, b0, 0)
        b2 == append_bytes(p, RequestType.BrandString2, b1, 16)
        b3 == append_bytes(p, RequestType.BrandString3, b2, 32)
    IN  [ ret |-> [bytes |-> b3],
          calls |-> <<RequestType.BrandString1, RequestType.BrandString2,
                      RequestType.BrandString3>> ]

\* self.bytes.iter().position(|&b| b == 0), zero-based
position_nul(bytes) ==
    LET nuls == {i \in 1..Len(bytes) : bytes[i] = 0}
    IN  IF nuls = {} THEN None
        ELSE Some((CHOOSE i \in nuls : \A j \in nuls : i <= j) - 1)

unwrap_or(o, default) == IF o = None THEN default ELSE o[1]

\* char::is_whitespace on an ASCII byte (White_Space: U+0009..U+000D, U+0020)
is_whitespace(b) == b \in 9..13 \/ b = 32

\* str::trim on ASCII text
trim(s) ==
    LET keep == {i \in 1..Len(s) : ~is_whitespace(s[i])}
    IN  IF keep = {} THEN <<>>
        ELSE SubSeq(s, CHOOSE i \in keep : \A j \in keep : i <= j, MaxOf(keep))

\* faulty variant of BrandString_deref: a buffer without NUL is used whole
BrandString_deref_whole_buffer(self) ==
    LET nul_terminator == unwrap_or(position_nul(self.bytes), Len(self.bytes))
        usable_bytes == SubSeq(self.bytes, 1, nul_terminator)
    IN  trim(usable_bytes)

\* <BrandString as Deref>::deref
BrandString_deref(self) ==
    LET nul_terminator == unwrap_or(position_nul(self.bytes), 0)
        usable_bytes == SubSeq(self.bytes, 1, nul_terminator)
    IN  trim(usable_bytes)

ThermalPowerManagementInformation_new(p) ==
    LET r == cpuid(p, RequestType.ThermalPowerManagementInformation)
    IN  [ ret |-> [eax |-> r[1], ebx |-> r[2], ecx |-> r[3]],
          calls |-> <<RequestType.ThermalPowerManagementInformation>> ]

ThermalPowerManagementInformation_number_of_interrupt_thresholds(self) ==
    bits_of(self.ebx, 0, 3)

StructuredExtendedInformation_new(p) ==
    LET r == cpuid(p, RequestType.StructuredExtendedInformation)
    IN  [ ret |-> [ebx |-> r[2], ecx |-> r[3]],
          calls |-> <<RequestType.StructuredExtendedInformation>> ]

\* CacheLine(u32): the tuple field .0 is x0
CacheLine_new(p) ==
    LET r == cpuid(p, RequestType.CacheLine)
    IN  [ ret |-> [x0 |-> r[3]], calls |-> <<RequestType.CacheLine>> ]

CacheLine_cache_line_size(self) == bits_of(self.x0, 0, 7)

\* faulty variant of CacheLine_l2_associativity: the code is read from bits 12..14
CacheLine_l2_associativity_three_bits(self) ==
    LET code == ToNat(bits_of(self.x0, 12, 14))
    IN  CASE code = \h00 -> Some("Disabled")
          [] code = \h01 -> Some("DirectMapped")
          [] code = \h02 -> Some("TwoWay")
          [] code = \h04 -> Some("FourWay")
          [] code = \h06 -> Some("EightWay")
          [] code = \h08 -> Some("SixteenWay")
          [] code = \h0F -> Some("Full")
          [] OTHER -> None

CacheLine_l2_associativity(self) ==
    LET code == ToNat(bits_of(self.x0, 12, 15))
    IN  CASE code = \h00 -> Some("Disabled")
          [] code = \h01 -> Some("DirectMapped")
          [] code = \h02 -> Some("TwoWay")
          [] code = \h04 -> Some("FourWay")
          [] code = \h06 -> Some("EightWay")
          [] code = \h08 -> Some("SixteenWay")
          [] code = \h0F -> Some("Full")
          [] OTHER -> None

CacheLine_cache_size(self) == bits_of(self.x0, 16, 31)

TimeStampCounter_new(p) ==
    LET r == cpuid(p, RequestType.TimeStampCounter)
    IN  [ ret |-> [edx |-> r[4]], calls |-> <<RequestType.TimeStampCounter>> ]

\* PhysicalAddressSize(u32): the tuple field .0 is x0
PhysicalAddressSize_new(p) ==
    LET r == cpuid(p, RequestType.PhysicalAddressSize)
    IN  [ ret |-> [x0 |-> r[1]], calls |-> <<RequestType.PhysicalAddressSize>> ]

PhysicalAddressSize_physical_address_bits(self) == bits_of(self.x0, 0, 7)

PhysicalAddressSize_linear_address_bits(self) == bits_of(self.x0, 8, 15)

\* --------------------------------------------------- the flag accessors
\* Each table row is <<register, bit index, accessor name>>.

\* bit!(reg, idx, name) of impl VersionInformation (lib.rs:187-251)
VersionInformation_bits ==
    {
      <<"ecx", 0, "sse3">>, <<"ecx", 1, "pclmulqdq">>, <<"ecx", 2, "dtes64">>,
      <<"ecx", 3, "monitor">>, <<"ecx", 4, "ds_cpl">>, <<"ecx", 5, "vmx">>,
      <<"ecx", 6, "smx">>, <<"ecx", 7, "eist">>, <<"ecx", 8, "tm2">>, <<"ecx", 9, "ssse3">>,
      <<"ecx", 10, "cnxt_id">>, <<"ecx", 11, "sdbg">>, <<"ecx", 12, "fma">>,
      <<"ecx", 13, "cmpxchg16b">>, <<"ecx", 14, "xtpr_update_control">>, <<"ecx", 15, "pdcm">>,
      <<"ecx", 17, "pcid">>, <<"ecx", 18, "dca">>, <<"ecx", 19, "sse4_1">>,
      <<"ecx", 20, "sse4_2">>, <<"ecx", 21, "x2apic">>, <<"ecx", 22, "movbe">>,
      <<"ecx", 23, "popcnt">>, <<"ecx", 24, "tsc_deadline">>, <<"ecx", 25, "aesni">>,
      <<"ecx", 26, "xsave">>, <<"ecx", 27, "osxsave">>, <<"ecx", 28, "avx">>,
      <<"ecx", 29, "f16c">>, <<"ecx", 30, "rdrand">>, <<"edx", 0, "fpu">>, <<"edx", 1, "vme">>,
      <<"edx", 2, "de">>, <<"edx", 3, "pse">>, <<"edx", 4, "tsc">>, <<"edx", 5, "msr">>,
      <<"edx", 6, "pae">>, <<"edx", 7, "mce">>, <<"edx", 8, "cx8">>, <<"edx", 9, "apic">>,
      <<"edx", 11, "sep">>, <<"edx", 12, "mtrr">>, <<"edx", 13, "pge">>, <<"edx", 14, "mca">>,
      <<"edx", 15, "cmov">>, <<"edx", 16, "pat">>, <<"edx", 17, "pse_36">>,
      <<"edx", 18, "psn">>, <<"edx", 19, "clfsh">>, <<"edx", 21, "ds">>, <<"edx", 22, "acpi">>,
      <<"edx", 23, "mmx">>, <<"edx", 24, "fxsr">>, <<"edx", 25, "sse">>, <<"edx", 26, "sse2">>,
      <<"edx", 27, "ss">>, <<"edx", 28, "htt">>, <<"edx", 29, "tm">>, <<"edx", 31, "pbe">>
    }

\* bit!(reg, idx, name) of impl ThermalPowerManagementInformation (lib.rs:447-467)
ThermalPowerManagementInformation_bits ==
    {
      <<"eax", 0, "digital_temperature_sensor">>, <<"eax", 1, "intel_turbo_boost">>,
      <<"eax", 2, "arat">>, <<"eax", 4, "pln">>, <<"eax", 5, "ecmd">>, <<"eax", 6, "ptm">>,
      <<"eax", 7, "hwp">>, <<"eax", 8, "hwp_notification">>,
      <<"eax", 9, "hwp_activity_window">>, <<"eax", 10, "hwp_energy_performance_preference">>,
      <<"eax", 13, "hdc">>, <<"ecx", 0, "hardware_coordination_feedback">>,
      <<"ecx", 3, "performance_energy_bias">>
    }

\* bit!(reg, idx, name) of impl StructuredExtendedInformation (lib.rs:505-529)
StructuredExtendedInformation_bits ==
    {
      <<"ebx", 0, "fsgsbase">>, <<"ebx", 1, "ia32_tsc_adjust_msr">>, <<"ebx", 3, "bmi1">>,
      <<"ebx", 4, "hle">>, <<"ebx", 5, "avx2">>, <<"ebx", 7, "smep">>, <<"ebx", 8, "bmi2">>,
      <<"ebx", 9, "enhanced_rep_movsb_stosb">>, <<"ebx", 10, "invpcid">>, <<"ebx", 11, "rtm">>,
      <<"ebx", 12, "pqm">>, <<"ebx", 13, "deprecates_fpu_cs_ds">>, <<"ebx", 15, "pqe">>,
      <<"ebx", 18, "rdseed">>, <<"ebx", 19, "adx">>, <<"ebx", 20, "smap">>,
      <<"ebx", 25, "intel_processor_trace">>, <<"ecx", 0, "prefetchwt1">>
    }

\* bit!(reg, idx, name) of impl ExtendedProcessorSignature (lib.rs:336-351)
ExtendedProcessorSignature_bits ==
    {
      <<"ecx", 0, "lahf_sahf_in_64_bit">>, <<"ecx", 5, "lzcnt">>, <<"ecx", 8, "prefetchw">>,
      <<"ecx", 11, "syscall_sysret_in_64_bit">>, <<"ecx", 20, "execute_disable">>,
      <<"ecx", 26, "gigabyte_pages">>, <<"ecx", 27, "rdtscp_and_ia32_tsc_aux">>,
      <<"ecx", 29, "intel_64_bit_architecture">>
    }

\* bit!(reg, idx, name) of impl TimeStampCounter (lib.rs:621-621)
TimeStampCounter_bits ==
    {
      <<"edx", 8, "invariant_tsc">>
    }

\* delegate_flag!(version_information, {...}) (lib.rs:735-795)
delegated_version_information ==
    {
      "sse3", "pclmulqdq", "dtes64", "monitor", "ds_cpl", "vmx", "smx", "eist", "tm2", "ssse3",
      "cnxt_id", "sdbg", "fma", "cmpxchg16b", "xtpr_update_control", "pdcm", "pcid", "dca",
      "sse4_1", "sse4_2", "x2apic", "movbe", "popcnt", "tsc_deadline", "aesni", "xsave",
      "osxsave", "avx", "f16c", "rdrand", "fpu", "vme", "de", "pse", "tsc", "msr", "pae",
      "mce", "cx8", "apic", "sep", "mtrr", "pge", "mca", "cmov", "pat", "pse_36", "psn",
      "clfsh", "ds", "acpi", "mmx", "fxsr", "sse", "sse2", "ss", "htt", "tm", "pbe"
    }

\* delegate_flag!(thermal_power_management_information, {...}) (lib.rs:797-811)
delegated_thermal_power_management_information ==
    {
      "digital_temperature_sensor", "intel_turbo_boost", "arat", "pln", "ecmd", "ptm", "hwp",
      "hwp_notification", "hwp_activity_window", "hwp_energy_performance_preference", "hdc",
      "hardware_coordination_feedback", "performance_energy_bias"
    }

\* delegate_flag!(structured_extended_information, {...}) (lib.rs:813-832)
delegated_structured_extended_information ==
    {
      "fsgsbase", "ia32_tsc_adjust_msr", "bmi1", "hle", "avx2", "smep", "bmi2",
      "enhanced_rep_movsb_stosb", "invpcid", "rtm", "pqm", "deprecates_fpu_cs_ds", "pqe",
      "rdseed", "adx", "smap", "intel_processor_trace", "prefetchwt1"
    }

\* delegate_flag!(extended_processor_signature, {...}) (lib.rs:834-843)
delegated_extended_processor_signature ==
    {
      "lahf_sahf_in_64_bit", "lzcnt", "prefetchw", "syscall_sysret_in_64_bit",
      "execute_disable", "gigabyte_pages", "rdtscp_and_ia32_tsc_aux",
      "intel_64_bit_architecture"
    }

\* delegate_flag!(time_stamp_counter, {...}) (lib.rs:845-847)
delegated_time_stamp_counter ==
    {
      "invariant_tsc"
    }

\* the bit! accessors of the decoder held in slot item
bits_table(item) ==
    CASE item = "version_information" -> VersionInformation_bits
      [] item = "thermal_power_management_information" ->
            ThermalPowerManagementInformation_bits
      [] item = "structured_extended_information" -> StructuredExtendedInformation_bits
      [] item = "extended_processor_signature" -> ExtendedProcessorSignature_bits
      [] item = "time_stamp_counter" -> TimeStampCounter_bits

\* decoder.name(): the accessor bit! generated under that name
decoder_flag(item, self, name) ==
    LET a == CHOOSE t \in bits_table(item) : t[3] = name
    IN  bit(self[a[1]], a[2])

\* faulty variant of delegate_flag: an absent decoder defaults to true
delegate_flag_default_true(self, item, name) ==
    unwrap_or(IF self[item] = None THEN None
              ELSE Some(decoder_flag(item, self[item][1], name)), TRUE)

\* the accessor delegate_flag! generates: self.item.map(|i| i.name()).unwrap_or(false)
delegate_flag(self, item, name) ==
    unwrap_or(IF self[item] = None THEN None
              ELSE Some(decoder_flag(item, self[item][1], name)), FALSE)

DelegatedItems ==
    { "version_information", "thermal_power_management_information",
      "structured_extended_information", "extended_processor_signature",
      "time_stamp_counter" }

delegated(item) ==
    CASE item = "version_information" -> delegated_version_information
      [] item = "thermal_power_management_information" ->
            delegated_thermal_power_management_information
      [] item = "structured_extended_information" ->
            delegated_structured_extended_information
      [] item = "extended_processor_signature" -> delegated_extended_processor_signature
      [] item = "time_stamp_counter" -> delegated_time_stamp_counter

\* the <<item, name>> pairs of Master's delegated flags
MasterFlags == UNION {{<<item, name>> : name \in delegated(item)} : item \in DelegatedItems}

\* faulty variant of Master_brand_string: an empty decoded text falls back to the brand index
Master_brand_string_skips_empty(self) ==
    LET explicit == IF self.brand_string = None THEN None
                    ELSE Some(BrandString_deref(self.brand_string[1]))
        fallback == IF self.version_information = None THEN None
                    ELSE VersionInformation_brand_string(self.version_information[1])
    IN  IF explicit # None /\ explicit # Some(<<>>) THEN explicit ELSE fallback

\* Master::brand_string
Master_brand_string(self) ==
    LET explicit == IF self.brand_string = None THEN None
                    ELSE Some(BrandString_deref(self.brand_string[1]))
        fallback == IF self.version_information = None THEN None
                    ELSE VersionInformation_brand_string(self.version_information[1])
    IN  IF explicit # None THEN explicit ELSE fallback

\* ------------------------------------------------------------ Master::new

\* faulty variant of when_supported: the comparison is max > kind
when_supported_strictly_greater(max, kind, then) ==
    IF U32Ge(max, kind) /\ max # kind THEN Some(then) ELSE None

\* when_supported(max, kind, then): then is called only if max >= kind as u32
when_supported(max, kind, then) ==
    IF U32Ge(max, kind) THEN Some(then) ELSE None

NoDecoders ==
    [ version_information |-> None,
      thermal_power_management_information |-> None,
      structured_extended_information |-> None,
      extended_processor_signature |-> None,
      brand_string |-> None,
      cache_line |-> None,
      time_stamp_counter |-> None,
      physical_address_size |-> None ]

Init ==
    /\ cpu \in Processors
    /\ pc = "new"
    /\ max_value = W(\h0000, \h0000)
    /\ master = NoDecoders
    /\ queries = <<>>
    /\ arg = None
    /\ ret = None

\* let (max_value, _, _, _) = cpuid(RequestType::BasicInformation);
QueryBasicInformation ==
    /\ pc = "new"
    /\ max_value' = cpuid(cpu, RequestType.BasicInformation)[1]
    /\ queries' = Append(queries, cpuid_inputs(RequestType.BasicInformation))
    /\ pc' = "vi"
    /\ UNCHANGED <<cpu, master, arg, ret>>

\* let slot = when_supported(max_value, kind, || new());
Construct(from, to, slot, kind, new) ==
    /\ pc = from
    /\ LET r == when_supported(max_value, kind, new)
       IN  /\ master' = [master EXCEPT ![slot] = IF r = None THEN None ELSE Some(r[1].ret)]
           /\ queries' = queries \o (IF r = None THEN <<>>
                                     ELSE [i \in 1..Len(r[1].calls) |->
                                              cpuid_inputs(r[1].calls[i])])
    /\ pc' = to
    /\ UNCHANGED <<cpu, max_value, arg, ret>>

ConstructVersionInformation ==
    Construct("vi", "tpm", "version_information",
              RequestType.VersionInformation, VersionInformation_new(cpu))

ConstructThermalPowerManagementInformation ==
    Construct("tpm", "sei", "thermal_power_management_information",
              RequestType.ThermalPowerManagementInformation,
              ThermalPowerManagementInformation_new(cpu))

ConstructStructuredExtendedInformation ==
    Construct("sei", "extended", "structured_extended_information",
              RequestType.StructuredExtendedInformation,
              StructuredExtendedInformation_new(cpu))

\* let (max_value, _, _, _) = cpuid(RequestType::ExtendedFunctionInformation);
QueryExtendedFunctionInformation ==
    /\ pc = "extended"
    /\ max_value' = cpuid(cpu, RequestType.ExtendedFunctionInformation)[1]
    /\ queries' = Append(queries, cpuid_inputs(RequestType.ExtendedFunctionInformation))
    /\ pc' = "eps"
    /\ UNCHANGED <<cpu, master, arg, ret>>

ConstructExtendedProcessorSignature ==
    Construct("eps", "brand_string", "extended_processor_signature",
              RequestType.ExtendedProcessorSignature, ExtendedProcessorSignature_new(cpu))

\* faulty variant of ConstructBrandString: gated on the first brand-string leaf
ConstructBrandString_gated_on_first_leaf ==
    Construct("brand_string", "cache_line", "brand_string",
              RequestType.BrandString1, BrandString_new(cpu))

ConstructBrandString ==
    Construct("brand_string", "cache_line", "brand_string",
              RequestType.BrandString3, BrandString_new(cpu))

ConstructCacheLine ==
    Construct("cache_line", "tsc", "cache_line",
              RequestType.CacheLine, CacheLine_new(cpu))

ConstructTimeStampCounter ==
    Construct("tsc", "pas", "time_stamp_counter",
              RequestType.TimeStampCounter, TimeStampCounter_new(cpu))

ConstructPhysicalAddressSize ==
    Construct("pas", "done", "physical_address_size",
              RequestType.PhysicalAddressSize, PhysicalAddressSize_new(cpu))

\* a delegated flag accessor of the built Master is called
CallFlag ==
    /\ pc = "done"
    /\ \E f \in MasterFlags :
          ret' = <<f[2], delegate_flag(master, f[1], f[2])>>
    /\ pc' = "returned"
    /\ UNCHANGED <<cpu, max_value, master, queries, arg>>

\* faulty variant of CallBrandString: the accessor reads the brand-string leaves
\* again and stores what they return
CallBrandString_queries_again ==
    /\ pc = "done"
    /\ LET new == BrandString_new(cpu)
       IN  /\ master' = [master EXCEPT !.brand_string = Some(new.ret)]
           /\ queries' = queries \o [i \in 1..Len(new.calls) |-> cpuid_inputs(new.calls[i])]
           /\ ret' = <<"brand_string", Master_brand_string(master')>>
    /\ pc' = "returned"
    /\ UNCHANGED <<cpu, max_value, arg>>

\* Master::brand_string is called on the built Master
CallBrandString ==
    /\ pc = "done"
    /\ ret' = <<"brand_string", Master_brand_string(master)>>
    /\ pc' = "returned"
    /\ UNCHANGED <<cpu, max_value, master, queries, arg>>

\* the caller takes the result; the Master stays available for the next call
Return ==
    /\ pc = "returned"
    /\ pc' = "done"
    /\ ret' = None
    /\ UNCHANGED <<cpu, max_value, master, queries, arg>>

Next ==
    \/ QueryBasicInformation
    \/ ConstructVersionInformation
    \/ ConstructThermalPowerManagementInformation
    \/ ConstructStructuredExtendedInformation
    \/ QueryExtendedFunctionInformation
    \/ ConstructExtendedProcessorSignature
    \/ ConstructBrandString
    \/ ConstructCacheLine
    \/ ConstructTimeStampCounter
    \/ ConstructPhysicalAddressSize
    \/ CallFlag
    \/ CallBrandString
    \/ Return

Spec == Init /\ [][Next]_vars

\* ------------------------------------------------- bits_of called alone

\* the k-th pseudo-random word
Word(k) == W((k * 40503 + 4919) % 2^16, (k * 25173 + 13849) % 2^16)

Words ==
    { W(\h0000, \h0000), W(\h0000, \h0001), W(\h8000, \h0000), W(\hFFFF, \hFFFF),
      W(\h0003, \h06A9) } \cup {Word(k) : k \in 1..NumWords}

\* the u8 bit positions tried: every position of the word, and some beyond it
BitArgs == (0..31) \cup {32, 255}

Quiet ==
    /\ max_value = W(\h0000, \h0000)
    /\ master = NoDecoders
    /\ queries = <<>>
    /\ ret = None

InitBits ==
    /\ cpu = None
    /\ pc = "bits_of"
    /\ arg \in Words \X BitArgs \X BitArgs
    /\ Quiet

\* bits_of(val, start_bit, end_bit) runs, in a build with or without overflow checks
CallBitsOf ==
    /\ pc = "bits_of"
    /\ \E overflow_checks \in BOOLEAN :
          ret' = IF overflow_checks /\ bits_of_overflows(arg[1], arg[2], arg[3])
                 THEN <<"panic">>
                 ELSE <<"ok", bits_of(arg[1], arg[2], arg[3])>>
    /\ pc' = "returned"
    /\ UNCHANGED <<cpu, max_value, master, queries, arg>>

NextBits == CallBitsOf

SpecBits == InitBits /\ [][NextBits]_vars

\* ------------------------------------- VersionInformation called alone

\* eax of leaf 1: stepping, model, family, extended model, extended family, and
\* the bits above them
EaxValues ==
    { BitOr(W(0, stepping + 16 * model + 256 * family),
            BitOr(W(extended_model + 16 * extended_family, 0), W(top, 0))) :
      stepping \in {1, 3}, model \in {1, 5, 11}, family \in {0, 6, 15},
      extended_model \in {0, 3}, extended_family \in {0, 2}, top \in {0, \hA000} }

\* ebx of leaf 1: the brand index in the low byte, and the bytes above it
EbxValues ==
    { BitOr(W(0, index), W(high, 0)) :
      index \in (0..\h1F) \cup {\h7F, \h80, \hFF}, high \in {0, \h0010} }
        \cup { W(\h0010, \h0803), W(\h0000, \h0103) }

InitVersionInformation ==
    /\ cpu = None
    /\ pc = "version_information"
    /\ arg \in [eax : EaxValues, ebx : EbxValues, ecx : {W(0, 0)}, edx : {W(0, 0)}]
    /\ Quiet

CallOn(name, value) ==
    /\ pc = "version_information"
    /\ ret' = <<name, value>>
    /\ pc' = "returned"
    /\ UNCHANGED <<cpu, max_value, master, queries, arg>>

CallFamilyId == CallOn("family_id", VersionInformation_family_id(arg))

CallModelId == CallOn("model_id", VersionInformation_model_id(arg))

CallStepping == CallOn("stepping", VersionInformation_stepping(arg))

CallVersionInformationBrandString ==
    CallOn("brand_string", VersionInformation_brand_string(arg))

NextVersionInformation ==
    \/ CallFamilyId
    \/ CallModelId
    \/ CallStepping
    \/ CallVersionInformationBrandString

SpecVersionInformation == InitVersionInformation /\ [][NextVersionInformation]_vars

\* ------------------------------------------ BrandString built and read

\* processors that support the brand-string leaves, each leaf returning any chunk
BrandProcessors ==
    { [ max_basic |-> W(\h0000, \h0000), max_extended |-> W(\h8000, \h0004),
        basic |-> 1, extended |-> 1, brand |-> <<c1, c2, c3>> ] :
      c1 \in 1..NumChunks, c2 \in 1..NumChunks, c3 \in 1..NumChunks }

InitBrandString ==
    /\ cpu \in BrandProcessors
    /\ pc = "brand_string"
    /\ max_value = cpu.max_extended
    /\ master = NoDecoders
    /\ queries = <<>>
    /\ arg = None
    /\ ret = None

\* (&brand_string as &str): deref of the BrandString the Master holds
CallDeref ==
    /\ pc = "cache_line"
    /\ master.brand_string # None
    /\ ret' = <<"deref", BrandString_deref(master.brand_string[1])>>
    /\ pc' = "returned"
    /\ UNCHANGED <<cpu, max_value, master, queries, arg>>

NextBrandString ==
    \/ ConstructBrandString
    \/ CallDeref

SpecBrandString == InitBrandString /\ [][NextBrandString]_vars

\* ------------------------------------------------ CacheLine called alone

\* ecx of leaf 0x80000006: every associativity code in bits 12..15, under several
\* settings of the line-size bits below and the cache-size bits above
CacheLineWords ==
    { BitOr(W(size, line), W(\h0000, 4096 * code)) :
      code \in 0..15, size \in {\h0000, \h0100, \h8001, \hFFFF},
      line \in {\h0000, \h0040, \h0FFF} }

InitCacheLine ==
    /\ cpu = None
    /\ pc = "l2_associativity"
    /\ arg \in [x0 : CacheLineWords]
    /\ Quiet

\* CacheLine::l2_associativity runs, in a build with or without overflow checks
CallL2Associativity ==
    /\ pc = "l2_associativity"
    /\ \E overflow_checks \in BOOLEAN :
          ret' = IF overflow_checks /\ bits_of_overflows(arg.x0, 12, 15)
                 THEN <<"panic">>
                 ELSE <<"l2_associativity", CacheLine_l2_associativity(arg)>>
    /\ pc' = "returned"
    /\ UNCHANGED <<cpu, max_value, master, queries, arg>>

NextCacheLine == CallL2Associativity

SpecCacheLine == InitCacheLine /\ [][NextCacheLine]_vars

\* ================================================================ claims

\* a word's halves as naturals, and unsigned order decided on them
Bit(w, i) == IF i \in w THEN 1 ELSE 0

HighHalf(w) ==
    1 * Bit(w, 16) + 2 * Bit(w, 17) + 4 * Bit(w, 18) + 8 * Bit(w, 19)
        + 16 * Bit(w, 20) + 32 * Bit(w, 21) + 64 * Bit(w, 22) + 128 * Bit(w, 23)
        + 256 * Bit(w, 24) + 512 * Bit(w, 25) + 1024 * Bit(w, 26) + 2048 * Bit(w, 27)
        + 4096 * Bit(w, 28) + 8192 * Bit(w, 29) + 16384 * Bit(w, 30) + 32768 * Bit(w, 31)

LowHalf(w) ==
    1 * Bit(w, 0) + 2 * Bit(w, 1) + 4 * Bit(w, 2) + 8 * Bit(w, 3)
        + 16 * Bit(w, 4) + 32 * Bit(w, 5) + 64 * Bit(w, 6) + 128 * Bit(w, 7)
        + 256 * Bit(w, 8) + 512 * Bit(w, 9) + 1024 * Bit(w, 10) + 2048 * Bit(w, 11)
        + 4096 * Bit(w, 12) + 8192 * Bit(w, 13) + 16384 * Bit(w, 14) + 32768 * Bit(w, 15)

UnsignedGe(a, b) ==
    LET ah == HighHalf(a)
        bh == HighHalf(b)
    IN  \/ ah > bh
        \/ ah = bh /\ LowHalf(a) >= LowHalf(b)

\* the word is at least the leaf code with halves hi and lo, as unsigned numbers
AtLeast(w, hi, lo) ==
    LET wh == HighHalf(w)
    IN  \/ wh > hi
        \/ wh = hi /\ LowHalf(w) >= lo

\* the leaf codes queried so far, each as its pair of halves
QueriedCodes ==
    {<<HighHalf(queries[i].eax), LowHalf(queries[i].eax)>> : i \in 1..Len(queries)}

Queried(leaf) == \E i \in 1..Len(queries) : queries[i].eax = leaf

Built == pc \in {"done", "returned"}

\* C1: while a snapshot is constructed, leaves 1, 6, 7 are queried only if the
\* reported maximum basic leaf is >= their code, leaves 0x80000001, 0x80000006,
\* 0x80000007, 0x80000008 only if the reported maximum extended leaf is >= their
\* code, and the brand-string leaves 0x80000002..4 only if it is >= 0x80000004.
C1_NoQueryAboveReportedMaximum ==
    LET asked == QueriedCodes
    IN  /\ \A n \in {1, 6, 7} :
              <<\h0000, n>> \in asked => AtLeast(cpu.max_basic, \h0000, n)
        /\ \A n \in {1, 6, 7, 8} :
              <<\h8000, n>> \in asked => AtLeast(cpu.max_extended, \h8000, n)
        /\ \A n \in {2, 3, 4} :
              <<\h8000, n>> \in asked => AtLeast(cpu.max_extended, \h8000, \h0004)
        /\ asked \subseteq {\h0000, \h8000} \X {0, 1, 2, 3, 4, 6, 7, 8}

\* C1 witness: construction has finished on a processor whose extended maximum is
\* 0x80000003: leaf 0x80000001 was queried, the brand-string leaves were not.
C1_Witness ==
    /\ pc = "done"
    /\ cpu.max_extended = W(\h8000, \h0003)
    /\ cpu.max_basic = W(\h0000, \h0006)
    /\ Queried(W(\h8000, \h0001)) /\ Queried(W(\h0000, \h0006))
    /\ ~Queried(W(\h8000, \h0002)) /\ ~Queried(W(\h0000, \h0007))

Present(slot) == master[slot] # None

\* C2: after Master::new each decoder slot is present iff the relevant reported
\* maximum is >= that leaf's code, compared as unsigned 32-bit numbers; basic slots
\* depend on the basic maximum only, extended slots on the extended maximum only.
C2_SlotPresentIffSupported ==
    Built =>
        /\ Present("version_information")
              <=> AtLeast(cpu.max_basic, \h0000, \h0001)
        /\ Present("thermal_power_management_information")
              <=> AtLeast(cpu.max_basic, \h0000, \h0006)
        /\ Present("structured_extended_information")
              <=> AtLeast(cpu.max_basic, \h0000, \h0007)
        /\ Present("extended_processor_signature")
              <=> AtLeast(cpu.max_extended, \h8000, \h0001)
        /\ Present("brand_string")
              <=> AtLeast(cpu.max_extended, \h8000, \h0004)
        /\ Present("cache_line")
              <=> AtLeast(cpu.max_extended, \h8000, \h0006)
        /\ Present("time_stamp_counter")
              <=> AtLeast(cpu.max_extended, \h8000, \h0007)
        /\ Present("physical_address_size")
              <=> AtLeast(cpu.max_extended, \h8000, \h0008)

\* C2 witness: a built Master on a processor reporting basic maximum 6 and extended
\* maximum 0xFFFFFFFF: the leaf-7 slot is empty, every extended slot is filled.
C2_Witness ==
    /\ pc = "done"
    /\ cpu.max_basic = W(\h0000, \h0006)
    /\ cpu.max_extended = W(\hFFFF, \hFFFF)
    /\ Present("thermal_power_management_information")
    /\ ~Present("structured_extended_information")
    /\ Present("brand_string") /\ Present("physical_address_size")

\* the register word the decoder in a filled slot stores under reg
Stored(slot, reg) == master[slot][1][reg]

FlagReturned(name) == pc = "returned" /\ ret[1] = name

\* C3: a delegated flag of Master returns its decoder's bit test on the stored
\* register word when the decoder is present, and false when it is absent
\* (avx2 = bit 5 of leaf-7 ebx, aesni = bit 25 and rdrand = bit 30 of leaf-1 ecx,
\* invariant_tsc = bit 8 of leaf-0x80000007 edx).
C3_DelegatedFlagIsBitTestOrFalse ==
    /\ \A slot \in DelegatedItems : \A t \in bits_table(slot) :
          FlagReturned(t[3]) =>
              ret[2] = (Present(slot) /\ t[2] \in Stored(slot, t[1]))
    /\ pc = "returned" =>
          \/ ret[1] = "brand_string"
          \/ \E slot \in DelegatedItems : \E t \in bits_table(slot) : t[3] = ret[1]
    /\ FlagReturned("avx2") =>
          ret[2] = ( /\ UnsignedGe(cpu.max_basic, W(\h0000, \h0007))
                     /\ 5 \in cpuid(cpu, W(\h0000, \h0007))[2] )
    /\ FlagReturned("aesni") =>
          ret[2] = ( /\ UnsignedGe(cpu.max_basic, W(\h0000, \h0001))
                     /\ 25 \in cpuid(cpu, W(\h0000, \h0001))[3] )
    /\ FlagReturned("rdrand") =>
          ret[2] = ( /\ UnsignedGe(cpu.max_basic, W(\h0000, \h0001))
                     /\ 30 \in cpuid(cpu, W(\h0000, \h0001))[3] )
    /\ FlagReturned("invariant_tsc") =>
          ret[2] = ( /\ UnsignedGe(cpu.max_extended, W(\h8000, \h0007))
                     /\ 8 \in cpuid(cpu, W(\h8000, \h0007))[4] )

\* C3 witness: avx2 was called on a Master whose leaf-7 decoder is absent while the
\* leaf-1 decoder is present and holds a set bit 5 in ecx; it returned false.
C3_Witness ==
    /\ FlagReturned("avx2")
    /\ ret[2] = FALSE
    /\ ~Present("structured_extended_information")
    /\ Present("version_information")
    /\ 5 \in Stored("version_information", "ecx")
    /\ 5 \in Stored("version_information", "edx")

\* C4: Master::brand_string returns the BrandString decoder's decoded text whenever
\* that decoder is present, the empty text included; without it, the brand-index
\* lookup of VersionInformation if that decoder is present; else no brand string.
C4_BrandStringPrefersExplicit ==
    FlagReturned("brand_string") =>
        ret[2] = IF Present("brand_string")
                 THEN Some(BrandString_deref(master.brand_string[1]))
                 ELSE IF Present("version_information")
                 THEN VersionInformation_brand_string(master.version_information[1])
                 ELSE None

\* C4 witness: brand_string was called on a Master whose BrandString decodes to the
\* empty text while VersionInformation has a brand-index name: it returned the
\* empty text.
C4_Witness ==
    /\ FlagReturned("brand_string")
    /\ Present("brand_string")
    /\ Present("version_information")
    /\ VersionInformation_brand_string(master.version_information[1]) # None
    /\ ret[2] = Some(<<>>)

\* --------------------------------------------------------------- bits_of

\* C5: for 0 <= s <= e <= 31, bits_of(v, s, e) = (v >> s) mod 2^(e-s+1): [0,31]
\* returns v, [i,i] returns 0 or 1, and no build panics on an overflowing shift, an
\* overflowing u8 loop bound or an overflowing mask.
C5_BitsOfIsShiftThenMask ==
    (pc = "returned" /\ arg[2] <= arg[3] /\ arg[3] <= 31) =>
        /\ ret = <<"ok", {i \in 0..(arg[3] - arg[2]) : i + arg[2] \in arg[1]}>>
        /\ (arg[2] = 0 /\ arg[3] = 31) => ret[2] = arg[1]
        /\ arg[2] = arg[3] => ret[2] \in {W(\h0000, \h0000), W(\h0000, \h0001)}

\* C5 witness: bits_of(0xFFFFFFFF, 0, 31) returned 0xFFFFFFFF.
C5_Witness ==
    /\ pc = "returned"
    /\ arg = <<W(\hFFFF, \hFFFF), 0, 31>>
    /\ ret = <<"ok", W(\hFFFF, \hFFFF)>>

\* ------------------------------------------------- VersionInformation

\* bits[lo:hi] of a word as a natural
Field(w, lo, hi) == ToNat({i - lo : i \in {j \in w : lo <= j /\ j <= hi}})

AdjustedFamily(eax) ==
    IF Field(eax, 8, 11) # 15 THEN Field(eax, 8, 11)
    ELSE Field(eax, 8, 11) + Field(eax, 20, 27)

\* C6: family_id = bits[8:11] of eax unless that is 0x0F, then 0x0F + bits[20:27];
\* model_id = (bits[16:19] << 4) + bits[4:7] when the adjusted family_id is 0x06 or
\* 0x0F, else bits[4:7]; stepping = bits[0:3].  Base family 6, extended model 3,
\* base model 5 give model 0x35; base family 0x0F, extended family 2 give 0x11.
C6_FamilyModelStepping ==
    /\ FlagReturned("family_id") =>
          /\ ToNat(ret[2]) = AdjustedFamily(arg.eax)
          /\ (Field(arg.eax, 8, 11) = 15 /\ Field(arg.eax, 20, 27) = 2)
                => ret[2] = W(\h0000, \h0011)
    /\ FlagReturned("model_id") =>
          /\ ToNat(ret[2]) = IF AdjustedFamily(arg.eax) \in {6, 15}
                             THEN 16 * Field(arg.eax, 16, 19) + Field(arg.eax, 4, 7)
                             ELSE Field(arg.eax, 4, 7)
          /\ ( /\ Field(arg.eax, 8, 11) = 6 /\ Field(arg.eax, 16, 19) = 3
               /\ Field(arg.eax, 4, 7) = 5 ) => ret[2] = W(\h0000, \h0035)
    /\ FlagReturned("stepping") => ToNat(ret[2]) = Field(arg.eax, 0, 3)

\* C6 witness: model_id was called with base family 0x0F, extended family 2 and
\* extended model 3: the adjusted family is 0x11, so it returned the base model 5.
C6_Witness ==
    /\ FlagReturned("model_id")
    /\ Field(arg.eax, 8, 11) = 15 /\ Field(arg.eax, 20, 27) = 2
    /\ Field(arg.eax, 16, 19) = 3
    /\ ret[2] = W(\h0000, \h0005)

\* the signatures the table names, and two it does not: equal strings under all of
\* these and under the eax at hand, for every eax at hand, are equal under every eax
Signatures ==
    { W(\h0000, \h06B1), W(\h0000, \h0F13), W(\h0000, \h0000), W(\h0003, \h06A9) }

\* the brand string the same ebx gives under another processor signature
BrandStringUnder(eax) == VersionInformation_brand_string([arg EXCEPT !.eax = eax])

\* C8 as stated: only the brand indexes 0x03 and 0x0E are disambiguated by the
\* processor signature; for every other brand index the string is the same for
\* all values of eax.
C8_OnlyTwoIndexesDisambiguated ==
    FlagReturned("brand_string") =>
        ( (\E eax \in Signatures : BrandStringUnder(eax) # ret[2])
            <=> Field(arg.ebx, 0, 7) \in {\h03, \h0E} )

\* C8 amended: exactly the brand indexes 0x03, 0x0B and 0x0E are disambiguated by
\* the processor signature; for every other brand index the string is the same for
\* all values of eax.
C8_ThreeIndexesDisambiguated ==
    FlagReturned("brand_string") =>
        ( (\E eax \in Signatures : BrandStringUnder(eax) # ret[2])
            <=> Field(arg.ebx, 0, 7) \in {\h03, \h0B, \h0E} )

\* C8 witness: brand_string was called with brand index 0x0B and signature 0x0F13
\* and returned "Intel(R) Xeon(R) MP", not the "Intel(R) Xeon(R)" of other signatures.
C8_Witness ==
    /\ FlagReturned("brand_string")
    /\ Field(arg.ebx, 0, 7) = \h0B
    /\ arg.eax = W(\h0000, \h0F13)
    /\ ret[2] = Some(STR_Intel_Xeon_MP)
    /\ BrandStringUnder(W(\h0000, \h06B1)) = Some(STR_Intel_Xeon)

\* C9: VersionInformation::brand_string is total and reads only bits[0:7] of ebx:
\* index 0 gives no string; index 3 gives "Intel(R) Celeron(R)" for eax = 0x06B1 and
\* "Intel(R) Pentium(R) III Xeon(R)" for every other eax; the indexes without a
\* table entry (0x05, 0x0D, 0x10, and 0x18 and above) give no string.
C9_BrandIndexTableTotal ==
    FlagReturned("brand_string") =>
        LET index == Field(arg.ebx, 0, 7)
        IN  /\ ret[2] = None \/ (Len(ret[2]) = 1 /\ Len(ret[2][1]) > 0)
            /\ ret[2] = VersionInformation_brand_string(
                            [arg EXCEPT !.ebx = {i \in arg.ebx : i <= 7}])
            /\ index = \h00 => ret[2] = None
            /\ index = \h03 =>
                  ret[2] = IF arg.eax = W(\h0000, \h06B1)
                           THEN Some(STR_Intel_Celeron)
                           ELSE Some(STR_Intel_Pentium_III_Xeon)
            /\ (index \in {\h05, \h0D, \h10} \/ index >= \h18) <=> 
                  (index # \h00 /\ ret[2] = None)

\* C9 witness: brand_string was called with ebx = 0x00100803 (index 3 under set
\* upper bytes) and eax = 0x06B1 and returned "Intel(R) Celeron(R)".
C9_Witness ==
    /\ FlagReturned("brand_string")
    /\ arg.ebx = W(\h0010, \h0803)
    /\ arg.eax = W(\h0000, \h06B1)
    /\ ret[2] = Some(STR_Intel_Celeron)

\* ------------------------------------------------------------ BrandString

Whitespace == (9..13) \cup {32}

\* t is p without the whitespace bytes at its two ends
IsTrimOf(p, t) ==
    \E a \in 0..Len(p) : \E b \in a..Len(p) :
        /\ t = SubSeq(p, a + 1, b)
        /\ \A k \in 1..a : p[k] \in Whitespace
        /\ \A k \in (b + 1)..Len(p) : p[k] \in Whitespace
        /\ t # <<>> => (t[1] \notin Whitespace /\ t[Len(t)] \notin Whitespace)

\* C10: the decoded text of a 48-byte brand buffer is the bytes before its first
\* NUL with the whitespace at both ends removed; a NUL at position 0 gives the empty
\* text, and so does a buffer without any NUL (not its 48 bytes).  The text is a
\* function of the buffer, so decoding it again gives the same text.
C10_DerefIsTrimmedPrefix ==
    FlagReturned("deref") =>
        LET bytes == master.brand_string[1].bytes
            nuls == {i \in 1..Len(bytes) : bytes[i] = 0}
            first == IF nuls = {} THEN 0 ELSE CHOOSE i \in nuls : \A j \in nuls : i <= j
        IN  /\ Len(bytes) = 48
            /\ nuls = {} => ret[2] = <<>>
            /\ first = 1 => ret[2] = <<>>
            /\ nuls # {} => IsTrimOf(SubSeq(bytes, 1, first - 1), ret[2])

\* C10 witness: deref was called on a buffer of 48 bytes none of which is NUL and
\* returned the empty text.
C10_Witness ==
    /\ FlagReturned("deref")
    /\ \A i \in 1..48 : master.brand_string[1].bytes[i] # 0
    /\ ret[2] = <<>>

\* ------------------------------------------- ExtendedProcessorSignature

\* C7: no named boolean accessor tests a bit that is reserved in the register it
\* reads: the accessors of ExtendedProcessorSignature return bits 0, 5 and 8 of ecx
\* (lahf_sahf_in_64_bit, lzcnt, prefetchw), ecx bits 9-31 being reserved, and bits
\* 11, 20, 26, 27, 29 of edx (syscall_sysret_in_64_bit, execute_disable,
\* gigabyte_pages, rdtscp_and_ia32_tsc_aux, intel_64_bit_architecture).
C7_ExtendedProcessorSignatureLayout ==
    \A t \in { <<"ecx", 0, "lahf_sahf_in_64_bit">>, <<"ecx", 5, "lzcnt">>,
              <<"ecx", 8, "prefetchw">>, <<"edx", 11, "syscall_sysret_in_64_bit">>,
              <<"edx", 20, "execute_disable">>, <<"edx", 26, "gigabyte_pages">>,
              <<"edx", 27, "rdtscp_and_ia32_tsc_aux">>,
              <<"edx", 29, "intel_64_bit_architecture">> } :
        (FlagReturned(t[3]) /\ Present("extended_processor_signature")) =>
            ret[2] = (t[2] \in Stored("extended_processor_signature", t[1]))

\* ------------------------------------------------------------ CacheLine

\* the 4-bit number held in bits 12..15 of a word
AssociativityCode(w) ==
    (IF 12 \in w THEN 1 ELSE 0) + (IF 13 \in w THEN 2 ELSE 0)
        + (IF 14 \in w THEN 4 ELSE 0) + (IF 15 \in w THEN 8 ELSE 0)

\* the seven named levels, by code
NamedLevels ==
    { <<0, "Disabled">>, <<1, "DirectMapped">>, <<2, "TwoWay">>, <<4, "FourWay">>,
      <<6, "EightWay">>, <<8, "SixteenWay">>, <<15, "Full">> }

\* C11: for every cache-line word l2_associativity returns without an error; the
\* 4-bit code in bits 12..15 gives the named level for codes 0x0, 0x1, 0x2, 0x4,
\* 0x6, 0x8, 0xF and None for the nine other codes, and two words that agree on
\* bits 12..15 give the same result.
C11_L2AssociativityTable ==
    (pc = "returned" /\ arg \in [x0 : CacheLineWords]) =>
        LET code == AssociativityCode(arg.x0)
        IN  /\ ret[1] = "l2_associativity"
            /\ \A t \in NamedLevels : code = t[1] => ret[2] = <<t[2]>>
            /\ code \in {3, 5, 7, 9, 10, 11, 12, 13, 14} => ret[2] = <<>>
            /\ \A w \in CacheLineWords :
                  AssociativityCode(w) = code =>
                      CacheLine_l2_associativity([x0 |-> w]) = ret[2]

\* C11 witness: l2_associativity returned None for the undefined code 0x3 on a
\* word whose line-size and cache-size bits are all set.
C11_Witness ==
    /\ FlagReturned("l2_associativity")
    /\ arg.x0 = W(\hFFFF, \h3FFF)
    /\ ret[2] = <<>>

\* --------------------------------------------------------- query sequence

\* the leaf codes of the cpuid executions so far, in order, each as its halves
IssuedCodes ==
    [i \in 1..Len(queries) |-> <<HighHalf(queries[i].eax), LowHalf(queries[i].eax)>>]

\* the code whose support admits a leaf: its own, or 0x80000004 for the three
\* brand-string leaves
GateOf(hi, n) == IF hi = \h8000 /\ n \in {2, 3, 4} THEN 4 ELSE n

\* those of the leaves hi:n, in the given order, that the maximum admits
SupportedOf(max, hi, leaves) ==
    LET maxh == HighHalf(max)
        maxl == LowHalf(max)
        kept == SelectSeq(leaves,
                          LAMBDA n : maxh > hi \/ (maxh = hi /\ maxl >= GateOf(hi, n)))
    IN  [i \in 1..Len(kept) |-> <<hi, kept[i]>>]

\* the whole sequence of leaves one snapshot on this processor queries
ExpectedQueries ==
    << <<\h0000, 0>> >> \o SupportedOf(cpu.max_basic, \h0000, <<1, 6, 7>>)
        \o << <<\h8000, 0>> >>
        \o SupportedOf(cpu.max_extended, \h8000, <<1, 2, 3, 4, 6, 7, 8>>)

IsPrefix(a, b) == Len(a) <= Len(b) /\ a = SubSeq(b, 1, Len(a))

\* the queries so far are an initial part of the fixed sequence, all of it once the
\* snapshot is built; each has sub-leaf 0; no leaf occurs twice; a leaf that is
\* gated comes after the query of leaf 0 or of leaf 0x80000000 that gates it
QueriesInFixedOrder ==
    LET issued == IssuedCodes
        expected == ExpectedQueries
    IN  /\ IsPrefix(issued, expected)
        /\ Built => issued = expected
        /\ \A i \in 1..Len(queries) : queries[i].ecx = {}
        /\ \A i, j \in 1..Len(issued) : i # j => issued[i] # issued[j]
        /\ \A i \in 1..Len(issued) :
              issued[i][2] # 0 => \E j \in 1..(i - 1) : issued[j] = <<issued[i][1], 0>>

\* a step taken on the built snapshot issues no query and changes no stored word
BuiltSnapshotIsImmutable == Built => (queries' = queries /\ master' = master)

\* C12: the cpuid executions of one snapshot form the fixed sequence leaf 0, the
\* supported ones of 1, 6, 7, leaf 0x80000000, the supported ones of 0x80000001,
\* 0x80000002..4 together, 0x80000006, 0x80000007, 0x80000008, each with sub-leaf
\* 0 and at most once, gated leaves after the query that reported their maximum;
\* and once construction has finished no accessor issues a query or changes a
\* stored word.
C12_FixedQueryOrderThenImmutable ==
    []QueriesInFixedOrder /\ [][BuiltSnapshotIsImmutable]_vars

\* C12 witness: on a processor reporting basic maximum 6 and extended maximum
\* 0x80000004 the snapshot was built with the eight queries 0, 1, 6, 0x80000000,
\* 0x80000001, 0x80000002, 0x80000003, 0x80000004, and brand_string has been
\* called on it.
C12_Witness ==
    /\ FlagReturned("brand_string")
    /\ cpu.max_basic = W(\h0000, \h0006)
    /\ cpu.max_extended = W(\h8000, \h0004)
    /\ IssuedCodes = << <<\h0000, 0>>, <<\h0000, 1>>, <<\h0000, 6>>, <<\h8000, 0>>,
                        <<\h8000, 1>>, <<\h8000, 2>>, <<\h8000, 3>>, <<\h8000, 4>> >>
    /\ ret[2] # None

====
